---- MODULE Spec2Model ----
(***************************************************************************)
(* Model of the book chatbot front-end (src/app.py) and of the lookup      *)
(* policy of the dashboard described in spec.md sections 4.2 and 4.3.      *)
(*                                                                         *)
(* app.py is a Streamlit script: every UI event re-executes the script     *)
(* top to bottom against the per-session st.session_state.  One action of  *)
(* this model is one execution of the script for one event.  A text is a   *)
(* sequence of tokens: a typed input is a sequence of characters, a fixed  *)
(* literal of the program is a one-token text.  The "timestamp" field of a *)
(* message is written but read only by display_message, it is left out.    *)
(***************************************************************************)
EXTENDS Integers, Sequences, FiniteSets, TLC

VARIABLES messages, selected_example, user_id, rerun, run,
          unprocessed,
          dpc, query, candidates, cutoff, match,
          dataset, genre, genreRows, fallbackInvoked

chatVars == <<messages, selected_example, user_id, rerun, run,
              unprocessed>>
dashVars == <<dpc, query, candidates, cutoff, match,
              dataset, genre, genreRows, fallbackInvoked>>
vars == <<messages, selected_example, user_id, rerun, run,
          unprocessed,
          dpc, query, candidates, cutoff, match,
          dataset, genre, genreRows, fallbackInvoked>>

----------------------------------------------------------------------------
(* Bounds *)

MaxLen == 2
MaxFrags == 2
MaxMsgs == 4

----------------------------------------------------------------------------
(* Texts *)

\* mutant: only leading blanks are removed
RECURSIVE Strip_LeadingOnly(_)
Strip_LeadingOnly(s) ==
    IF s = <<>> THEN s
    ELSE IF Head(s) = " " THEN Strip_LeadingOnly(Tail(s))
    ELSE s

RECURSIVE Strip(_)
Strip(s) ==
    IF s = <<>> THEN s
    ELSE IF Head(s) = " " THEN Strip(Tail(s))
    ELSE IF s[Len(s)] = " " THEN Strip(SubSeq(s, 1, Len(s) - 1))
    ELSE s

Chars == {" ", "a"}
\* every text of at most MaxLen characters that can be typed into the form
Inputs == UNION {[1..n -> Chars] : n \in 0..MaxLen}
\* the texts typed in the session: nothing, a blank, a word, a padded word
Typed == {<<>>, <<" ">>, <<"a">>, <<" ", "a">>}
\* the selectbox entries and quick actions clicked in the session
SelectChoices == {0, 3}
QuickChoices == {2}
\* the values of int(time.time()) at which a session can start
Epochs == {1700000000, 1700000001}

IsPrefix(s, t) == Len(s) <= Len(t) /\ SubSeq(t, 1, Len(s)) = s

WelcomeMsg == <<"Hello! Welcome to the Book Recommendation Chatbot!">>
ClearedMsg == <<"Chat cleared! How can I help you find books today?">>
Placeholder == <<"Select an example...">>
quick_commands ==
    << <<"Recommend me a book">>,
       <<"Find books by J.K. Rowling">>,
       <<"Show me science fiction books">>,
       <<"What are the top rated books?">>,
       <<"Tell me about The Great Gatsby">>,
       <<"How many pages does Dune have?">>,
       <<"Who published Harry Potter?">>,
       <<"Show me the book cover for 1984">> >>
SelectOptions == <<Placeholder>> \o quick_commands
quick_actions ==
    << <<"Recommend me a random book">>,
       <<"Show me top rated books">>,
       <<"Find fantasy books">>,
       <<"How can I search for books?">> >>

ExampleFallback == <<"I'm sorry, I didn't understand that. Could you please rephrase?">>
FormFallback == <<"I'm sorry, I didn't understand that. Could you please rephrase your question?">>
ExampleOffline == <<"I can't process your request right now because the Rasa server is not running. Please check the connection status in the sidebar.">>
FormOffline == <<"I can't process your request right now because the Rasa server is not running. To fix this: ...">>
ConnectionErrorText == <<"Cannot connect to the chatbot server. Please make sure Rasa is running: ...">>
TimeoutText == <<"Request timeout. The server is taking too long to respond. Please try again.">>

StatusStr(s) ==
    CASE s = 200 -> "200"
      [] s = 404 -> "404"
      [] s = 500 -> "500"
      [] s = 503 -> "503"
ServerErrorText(s) == <<"Server error (Status: ", StatusStr(s), "). Please try again.">>
ExceptionText(e) == <<"An error occurred: ", e>>

----------------------------------------------------------------------------
(* The NLU server as seen through requests: what one HTTP call can do *)

Fragments == {[text |-> <<"reply">>], [image |-> <<"cover.png">>]}
FragLists == UNION {[1..n -> Fragments] : n \in 0..MaxFrags}
ErrStatuses == {500}

Response(s, ok, js) == [kind |-> "response", status |-> s, json_ok |-> ok, json |-> js, err |-> ""]
Raised(k, e) == [kind |-> k, status |-> 0, json_ok |-> FALSE, json |-> <<>>, err |-> e]

PostOutcomes ==
    {Response(200, TRUE, fl) : fl \in FragLists}
      \cup {Response(200, FALSE, <<>>)}
      \cup {Response(s, TRUE, <<>>) : s \in ErrStatuses}
      \cup {Raised("ConnectionError", "refused"), Raised("Timeout", "timed out"),
            Raised("Exception", "boom")}
HealthOutcomes ==
    {Response(200, TRUE, <<>>), Response(503, TRUE, <<>>),
     Raised("ConnectionError", "refused")}

check_rasa_connection(h) ==
    IF h.kind = "response" THEN h.status = 200 ELSE FALSE

\* mutant: no clause for Timeout, it falls into the generic clause
send_message_to_rasa_NoTimeoutClause(message, uid, o) ==
    [payload |-> [sender |-> uid, message |-> message],
     ret |->
        IF o.kind = "response"
        THEN IF o.status = 200
             THEN IF o.json_ok THEN o.json
                  ELSE <<[text |-> ExceptionText("Expecting value")]>>
             ELSE <<[text |-> ServerErrorText(o.status)]>>
        ELSE IF o.kind = "ConnectionError" THEN <<[text |-> ConnectionErrorText]>>
        ELSE <<[text |-> ExceptionText(o.err)]>>]

send_message_to_rasa(message, uid, o) ==
    [payload |-> [sender |-> uid, message |-> message],
     ret |->
        IF o.kind = "response"
        THEN IF o.status = 200
             THEN IF o.json_ok THEN o.json
                  ELSE <<[text |-> ExceptionText("Expecting value")]>>
             ELSE <<[text |-> ServerErrorText(o.status)]>>
        ELSE IF o.kind = "ConnectionError" THEN <<[text |-> ConnectionErrorText]>>
        ELSE IF o.kind = "Timeout" THEN <<[text |-> TimeoutText]>>
        ELSE <<[text |-> ExceptionText(o.err)]>>]

----------------------------------------------------------------------------
(* Session state and the handlers of the script *)

Msg(sender, text) == [sender |-> sender, message |-> text]
\* mutant: the new message is put in front
AppendMsg_Prepend(msgs, sender, text) == <<Msg(sender, text)>> \o msgs

AppendMsg(msgs, sender, text) == Append(msgs, Msg(sender, text))

Get(d, key, default) == IF key \in DOMAIN d THEN d[key] ELSE default

\* mutant: a fragment without "text" is skipped
RECURSIVE AddBotResponses_SkipNoText(_, _, _)
AddBotResponses_SkipNoText(msgs, bot_responses, fallback) ==
    IF bot_responses = <<>> THEN msgs
    ELSE IF "text" \in DOMAIN Head(bot_responses)
    THEN AddBotResponses_SkipNoText(Append(msgs, Msg("bot", Head(bot_responses).text)),
                                    Tail(bot_responses), fallback)
    ELSE AddBotResponses_SkipNoText(msgs, Tail(bot_responses), fallback)

RECURSIVE AddBotResponses(_, _, _)
AddBotResponses(msgs, bot_responses, fallback) ==
    IF bot_responses = <<>> THEN msgs
    ELSE AddBotResponses(AppendMsg(msgs, "bot", Get(Head(bot_responses), "text", fallback)),
                         Tail(bot_responses), fallback)

\* mutant: the request is sent whatever the health check said
GetBotResponse_IgnoreStatus(msgs, text, rasa_online, o, uid, fallback, offline) ==
    LET r == send_message_to_rasa(text, uid, o)
    IN  [messages |-> AddBotResponses(msgs, r.ret, fallback),
         posts |-> <<r.payload>>, ret |-> r.ret]

\* mutant: nothing is appended when the server is offline
GetBotResponse_SilentOffline(msgs, text, rasa_online, o, uid, fallback, offline) ==
    IF rasa_online
    THEN LET r == send_message_to_rasa(text, uid, o)
         IN  [messages |-> AddBotResponses(msgs, r.ret, fallback),
              posts |-> <<r.payload>>, ret |-> r.ret]
    ELSE [messages |-> msgs, posts |-> <<>>, ret |-> <<>>]

\* the "Get bot response" branch; returns the new history, the requests sent
\* and the value send_message_to_rasa returned
GetBotResponse(msgs, text, rasa_online, o, uid, fallback, offline) ==
    IF rasa_online
    THEN LET r == send_message_to_rasa(text, uid, o)
         IN  [messages |-> AddBotResponses(msgs, r.ret, fallback),
              posts |-> <<r.payload>>, ret |-> r.ret]
    ELSE [messages |-> AppendMsg(msgs, "bot", offline), posts |-> <<>>, ret |-> <<>>]

\* session state as seen by the handlers
SS(msgs, sel) == [messages |-> msgs, selected_example |-> sel]

\* mutant: the pending selection is not deleted
ExampleHandler_NoDelete(ss, rasa_online, o, uid) ==
    LET user_input == ss.selected_example[1]
        g == GetBotResponse(AppendMsg(ss.messages, "user", user_input), user_input,
                            rasa_online, o, uid, ExampleFallback, ExampleOffline)
    IN  [messages |-> g.messages, selected_example |-> ss.selected_example,
         posts |-> g.posts, ret |-> g.ret, handled |-> "example", rerun |-> TRUE]

ExampleHandler(ss, rasa_online, o, uid) ==
    LET user_input == ss.selected_example[1]
        g == GetBotResponse(AppendMsg(ss.messages, "user", user_input), user_input,
                            rasa_online, o, uid, ExampleFallback, ExampleOffline)
    IN  [messages |-> g.messages, selected_example |-> <<>>,
         posts |-> g.posts, ret |-> g.ret, handled |-> "example", rerun |-> TRUE]

FormHandler(ss, user_input, rasa_online, o, uid) ==
    IF Strip(user_input) # <<>>
    THEN LET g == GetBotResponse(AppendMsg(ss.messages, "user", Strip(user_input)),
                                 Strip(user_input), rasa_online, o, uid,
                                 FormFallback, FormOffline)
         IN  [messages |-> g.messages, selected_example |-> ss.selected_example,
              posts |-> g.posts, ret |-> g.ret, handled |-> "form", rerun |-> TRUE]
    ELSE [messages |-> ss.messages, selected_example |-> ss.selected_example,
          posts |-> <<>>, ret |-> <<>>, handled |-> "warning", rerun |-> FALSE]

\* mutant: the history is emptied and no message is appended
ClearHandler_NoMessage(ss) ==
    [messages |-> <<>>, selected_example |-> ss.selected_example,
     posts |-> <<>>, ret |-> <<>>, handled |-> "clear", rerun |-> TRUE]

ClearHandler(ss) ==
    [messages |-> AppendMsg(<<>>, "bot", ClearedMsg), selected_example |-> ss.selected_example,
     posts |-> <<>>, ret |-> <<>>, handled |-> "clear", rerun |-> TRUE]

Untouched(ss, h, rr) ==
    [messages |-> ss.messages, selected_example |-> ss.selected_example,
     posts |-> <<>>, ret |-> <<>>, handled |-> h, rerun |-> rr]

\* One execution of the script.  ev.button is the widget that fired
\* ("none" on a rerun), ev.choice the selectbox index, ev.quick the index of
\* the clicked quick action, ev.user_input the text in the form.
Script(ss, ev, rasa_online, o, uid) ==
    LET s1 == IF ev.button = "use_example" /\ SelectOptions[ev.choice + 1] # Placeholder
              THEN SS(ss.messages, <<SelectOptions[ev.choice + 1]>>)
              ELSE ss
    IN  IF ev.button = "clear" THEN ClearHandler(s1)
        ELSE IF ev.button = "refresh" THEN Untouched(s1, "refresh", TRUE)
        ELSE IF s1.selected_example # <<>> THEN ExampleHandler(s1, rasa_online, o, uid)
        ELSE IF ev.button = "quick"
             THEN [messages |-> s1.messages, selected_example |-> <<quick_actions[ev.quick]>>,
                   posts |-> <<>>, ret |-> <<>>, handled |-> "quick", rerun |-> TRUE]
        ELSE IF ev.button = "send" THEN FormHandler(s1, ev.user_input, rasa_online, o, uid)
        ELSE Untouched(s1, "none", FALSE)

Event(b, c, q, i) == [button |-> b, choice |-> c, quick |-> q, user_input |-> i]

UserId(t) == <<"streamlit_user_", t>>

\* mutant: the sender id is assigned again by every execution
InitUserId_Always(uid, t) == UserId(t)

\* "if 'user_id' not in st.session_state": <<>> is the absent attribute, t the
\* value of int(time.time()) when the script executes
InitUserId(uid, t) == IF uid = <<>> THEN UserId(t) ELSE uid

IsSelectingClick(ev) ==
    \/ ev.button = "quick"
    \/ ev.button = "use_example" /\ SelectOptions[ev.choice + 1] # Placeholder

NoOutcome == Raised("none", "")

FailureOf(o) ==
    IF o.kind = "response"
    THEN IF o.status # 200 THEN "status" ELSE IF o.json_ok THEN "ok" ELSE "json"
    ELSE o.kind

\* what the last execution of the script did (history variable)
RunRecord(ev, rasa_online, o, r, before) ==
    IF r.handled \in {"example", "form", "warning"}
    THEN [handled |-> r.handled, user_input |-> ev.user_input,
          rasa_online |-> rasa_online,
          outcome |-> IF r.posts # <<>> THEN FailureOf(o) ELSE "none",
          posts |-> r.posts, ret |-> r.ret, before |-> before]
    ELSE [handled |-> r.handled, user_input |-> <<>>, rasa_online |-> FALSE,
          outcome |-> "none", posts |-> <<>>, ret |-> <<>>, before |-> <<>>]

\* the script executes for event ev; the server's reply o exists only when
\* the execution sends a request
Run(ev) ==
    \E rasa_online \in {check_rasa_connection(h) : h \in HealthOutcomes},
       uid \in {InitUserId(user_id, t) : t \in Epochs} :
        LET ss == SS(messages, selected_example)
            sends == Script(ss, ev, rasa_online, NoOutcome, uid).posts # <<>>
        IN  /\ sends => Len(messages) < MaxMsgs
            /\ \E o \in IF sends THEN PostOutcomes ELSE {NoOutcome} :
              LET r == Script(ss, ev, rasa_online, o, uid)
              IN  /\ Len(r.messages) <= MaxMsgs
                  /\ messages' = r.messages
                  /\ selected_example' = r.selected_example
                  /\ rerun' = r.rerun
                  /\ run' = RunRecord(ev, rasa_online, o, r, messages)
                  /\ unprocessed' = unprocessed
                                      + (IF IsSelectingClick(ev) THEN 1 ELSE 0)
                                      - (IF r.handled = "example" THEN 1 ELSE 0)
                  /\ user_id' = uid
                  /\ UNCHANGED dashVars

RunFormSubmit == ~rerun /\ \E i \in Typed : Run(Event("send", 0, 0, i))
RunFormSubmitAny == ~rerun /\ \E i \in Inputs : Run(Event("send", 0, 0, i))
RunUseExample == ~rerun /\ \E c \in SelectChoices : Run(Event("use_example", c, 0, <<>>))
RunQuickAction == ~rerun /\ \E q \in QuickChoices : Run(Event("quick", 0, q, <<>>))
RunClear == ~rerun /\ Run(Event("clear", 0, 0, <<>>))
RunRefresh == ~rerun /\ Run(Event("refresh", 0, 0, <<>>))
RunRerun == rerun /\ Run(Event("none", 0, 0, <<>>))


NoRun == [handled |-> "none", user_input |-> <<>>, rasa_online |-> FALSE,
          outcome |-> "none", posts |-> <<>>, ret |-> <<>>, before |-> <<>>]

----------------------------------------------------------------------------
(* Dashboard lookup policy (spec.md 4.2 Fuzzy Resolver, 4.3 Record Selector) *)

MaxQLen == 2
MaxCands == 2
MaxRows == 12
TopN == 10

Min(a, b) == IF a < b THEN a ELSE b
Max(a, b) == IF a > b THEN a ELSE b

RECURSIVE EditDistance(_, _)
EditDistance(a, b) ==
    IF a = <<>> THEN Len(b)
    ELSE IF b = <<>> THEN Len(a)
    ELSE IF Head(a) = Head(b) THEN EditDistance(Tail(a), Tail(b))
    ELSE 1 + Min(EditDistance(Tail(a), b),
                 Min(EditDistance(a, Tail(b)), EditDistance(Tail(a), Tail(b))))

\* edit-distance ratio scaled to 0..100
Similarity(a, b) ==
    LET m == Max(Len(a), Len(b))
    IN  IF m = 0 THEN 100 ELSE (100 * (m - EditDistance(a, b))) \div m

\* index of the highest-scoring candidate, first-encountered wins
BestIndex(q, C) ==
    CHOOSE i \in 1..Len(C) :
        /\ \A j \in 1..Len(C) : Similarity(q, C[j]) <= Similarity(q, C[i])
        /\ \A j \in 1..(i - 1) : Similarity(q, C[j]) < Similarity(q, C[i])

\* mutant: the best candidate is returned whatever its score
resolve_NoCutoff(q, C, t) ==
    IF q = <<>> \/ C = <<>> THEN <<>>
    ELSE LET i == BestIndex(q, C)
         IN  <<[candidate |-> C[i], score |-> Similarity(q, C[i])]>>

\* mutant: an empty query is scored like any other
resolve_NoEmptyQueryGuard(q, C, t) ==
    IF C = <<>> THEN <<>>
    ELSE LET i == BestIndex(q, C)
         IN  IF Similarity(q, C[i]) >= t
             THEN <<[candidate |-> C[i], score |-> Similarity(q, C[i])]>>
             ELSE <<>>

\* a Match is <<>> (None) or a one-element sequence holding the match
resolve(q, C, t) ==
    IF q = <<>> \/ C = <<>> THEN <<>>
    ELSE LET i == BestIndex(q, C)
         IN  IF Similarity(q, C[i]) >= t
             THEN <<[candidate |-> C[i], score |-> Similarity(q, C[i])]>>
             ELSE <<>>

LowerChar(c) == IF c = "F" THEN "f" ELSE IF c = "A" THEN "a" ELSE c
Lower(s) == [i \in 1..Len(s) |-> LowerChar(s[i])]
Contains(s, sub) ==
    \E i \in 0..(Len(s) - Len(sub)) : SubSeq(s, i + 1, i + Len(sub)) = sub

GenreEquals(row, g) == Lower(row.genre) = Lower(g)
GenreContains(row, g) == Contains(Lower(row.genre), Lower(g))
ExactGenreFilter(rows, g) == SelectSeq(rows, LAMBDA r : GenreEquals(r, g))
SubstringGenreFilter(rows, g) == SelectSeq(rows, LAMBDA r : GenreContains(r, g))
FirstRows(rows, n) == SubSeq(rows, 1, Min(Len(rows), n))

\* mutant: the substring filter is applied whatever the exact filter found
select_genre_AlwaysSubstring(rows, g) ==
    [rows |-> FirstRows(SubstringGenreFilter(rows, g), TopN), fallback |-> TRUE]

select_genre(rows, g) ==
    LET exact == ExactGenreFilter(rows, g)
    IN  IF exact # <<>>
        THEN [rows |-> FirstRows(exact, TopN), fallback |-> FALSE]
        ELSE [rows |-> FirstRows(SubstringGenreFilter(rows, g), TopN), fallback |-> TRUE]

QueryChars == {"a", "b"}
Queries == UNION {[1..n -> QueryChars] : n \in 0..MaxQLen}
CandidateNames == Queries \ {<<>>}
CandidateLists ==
    {c \in UNION {[1..n -> CandidateNames] : n \in 0..MaxCands} :
        \A i, j \in 1..Len(c) : c[i] = c[j] => i = j}
Cutoffs == {0, 50, 60, 100}
RowGenres == {<<"F">>, <<"a", "F">>}
GenreNames == {<<"f">>, <<"a">>}

ChatIdle ==
    /\ messages = <<>> /\ selected_example = <<>> /\ user_id = <<>>
    /\ rerun = FALSE /\ run = NoRun /\ unprocessed = 0

ResolveIdle == query = <<>> /\ candidates = <<>> /\ cutoff = 0 /\ match = <<>>
GenreIdle == dataset = <<>> /\ genre = <<>> /\ genreRows = <<>> /\ fallbackInvoked = FALSE
DashIdle == dpc = "off" /\ ResolveIdle /\ GenreIdle

InitResolve ==
    /\ ChatIdle /\ GenreIdle
    /\ dpc = "query"
    /\ query \in Queries
    /\ candidates \in CandidateLists
    /\ cutoff \in Cutoffs
    /\ match = <<>>

DoResolve ==
    /\ dpc = "query"
    /\ match' = resolve(query, candidates, cutoff)
    /\ dpc' = "resolved"
    /\ UNCHANGED <<query, candidates, cutoff, dataset, genre, genreRows, fallbackInvoked>>
    /\ UNCHANGED chatVars

NextResolve == DoResolve
SpecResolve == InitResolve /\ [][NextResolve]_vars

InitGenre ==
    /\ ChatIdle /\ ResolveIdle
    /\ dpc = "load"
    /\ dataset = <<>>
    /\ genre \in GenreNames
    /\ genreRows = <<>>
    /\ fallbackInvoked = FALSE

LoadRow ==
    /\ dpc = "load"
    /\ Len(dataset) < MaxRows
    /\ \E g \in RowGenres : dataset' = Append(dataset, [id |-> Len(dataset) + 1, genre |-> g])
    /\ UNCHANGED <<dpc, query, candidates, cutoff, match, genre, genreRows, fallbackInvoked>>
    /\ UNCHANGED chatVars

SelectGenre ==
    /\ dpc = "load"
    /\ LET r == select_genre(dataset, genre)
       IN  genreRows' = r.rows /\ fallbackInvoked' = r.fallback
    /\ dpc' = "selected"
    /\ UNCHANGED <<query, candidates, cutoff, match, dataset, genre>>
    /\ UNCHANGED chatVars

NextGenre == LoadRow \/ SelectGenre
SpecGenre == InitGenre /\ [][NextGenre]_vars

----------------------------------------------------------------------------
Init ==
    /\ messages = AppendMsg(<<>>, "bot", WelcomeMsg)
    /\ selected_example = <<>>
    /\ \E t \in Epochs : user_id = InitUserId(<<>>, t)
    /\ rerun = FALSE
    /\ run = NoRun
    /\ unprocessed = 0
    /\ DashIdle

Next ==
    \/ RunFormSubmit
    \/ RunUseExample
    \/ RunQuickAction
    \/ RunClear
    \/ RunRefresh
    \/ RunRerun

Spec == Init /\ [][Next]_vars

\* the form alone, with every input of at most MaxLen characters
NextForm ==
    \/ RunFormSubmitAny
    \/ RunRerun

SpecForm == Init /\ [][NextForm]_vars

----------------------------------------------------------------------------
(* Properties *)

Last(s) == s[Len(s)]
Handled == run.handled \in {"form", "example"}
\* the messages the last execution appended
Appended == SubSeq(messages, Len(run.before) + 1, Len(messages))
FallbackOf(h) == IF h = "form" THEN FormFallback ELSE ExampleFallback
OfflineOf(h) == IF h = "form" THEN FormOffline ELSE ExampleOffline

\* C1 as stated: the history is append-only under every UI event, each later
\* history has every earlier history as a prefix.
C1_AppendOnlyAlways == [][IsPrefix(messages, messages')]_vars

\* C1 amended: the history is append-only under every event except Clear
\* Chat History, which replaces the history by the single "Chat cleared" bot
\* message.
C1_AppendOnlyExceptClear ==
    [][IF run'.handled = "clear"
       THEN messages' = <<Msg("bot", ClearedMsg)>>
       ELSE IsPrefix(messages, messages')]_vars

C1_Witness ==
    /\ Handled
    /\ Len(run.before) >= 1
    /\ Len(messages) > Len(run.before)
    /\ run.before[1] = Msg("bot", ClearedMsg)

\* the text that describes each failure of the relay
DescribesFailure(text, outcome) ==
    CASE outcome = "ConnectionError" -> text = ConnectionErrorText
      [] outcome = "Timeout" -> text = TimeoutText
      [] outcome = "status" -> Len(text) = 3 /\ text[1] = "Server error (Status: "
                                 /\ text[2] \in {StatusStr(st) : st \in ErrStatuses}
      [] outcome \in {"Exception", "json"} -> Len(text) = 2 /\ text[1] = "An error occurred: "
      [] OTHER -> FALSE

\* C2: every failure of the relay (connection refused, timeout, non-200
\* status, any other exception) makes send_message_to_rasa return exactly one
\* {text} fragment describing the failure; the handler appends that text as a
\* bot message after the user message and the session goes on (the script is
\* rerun, nothing is left pending).
C2_FailureReportedAsText ==
    (Handled /\ run.outcome \notin {"ok", "none"}) =>
        /\ Len(run.ret) = 1
        /\ DOMAIN run.ret[1] = {"text"}
        /\ DescribesFailure(run.ret[1].text, run.outcome)
        /\ Len(Appended) = 2
        /\ IsPrefix(run.before, messages)
        /\ Appended[1].sender = "user"
        /\ Appended[2] = Msg("bot", run.ret[1].text)
        /\ rerun
        /\ selected_example = <<>>
        /\ ENABLED RunRerun

C2_Witness ==
    /\ Handled
    /\ run.outcome = "Timeout"
    /\ Len(run.before) >= 2
    /\ Last(messages) = Msg("bot", TimeoutText)

\* C3: a message handled while the server is judged online appends the user
\* message first, then exactly one bot message per returned fragment, in the
\* order of the fragments; a fragment without "text" yields the fallback text.
C3_OneBotMessagePerFragment ==
    (Handled /\ run.rasa_online) =>
        /\ IsPrefix(run.before, messages)
        /\ Len(Appended) = 1 + Len(run.ret)
        /\ Appended[1].sender = "user"
        /\ \A i \in 1..Len(run.ret) :
              Appended[1 + i] =
                  Msg("bot", IF "text" \in DOMAIN run.ret[i]
                             THEN run.ret[i].text ELSE FallbackOf(run.handled))

C3_Witness ==
    /\ Handled /\ run.rasa_online /\ run.outcome = "ok"
    /\ Len(run.ret) = 2
    /\ "text" \in DOMAIN run.ret[1]
    /\ "text" \notin DOMAIN run.ret[2]

\* C7: when the health check of the run reports the server offline, handling
\* a message appends the user message and exactly one bot message, the fixed
\* offline notice, and sends no POST request.
C7_OfflineNoPost ==
    (Handled /\ ~run.rasa_online) =>
        /\ IsPrefix(run.before, messages)
        /\ Len(Appended) = 2
        /\ Appended[1].sender = "user"
        /\ Appended[2] = Msg("bot", OfflineOf(run.handled))
        /\ run.posts = <<>>

C7_Witness == run.handled = "example" /\ ~run.rasa_online /\ Len(run.before) >= 2

\* s is t without its leading and trailing blanks
IsBlank(t) == \A k \in 1..Len(t) : t[k] = " "
IsStripOf(s, t) ==
    \E a \in 1..(Len(t) + 1), b \in 0..Len(t) :
        /\ s = SubSeq(t, a, b)
        /\ \A k \in 1..(a - 1) : t[k] = " "
        /\ \A k \in (b + 1)..Len(t) : t[k] = " "
        /\ s # <<>> => (s[1] # " " /\ Last(s) # " ")

\* C8: submitting a blank (empty or whitespace-only) input leaves the history
\* unchanged and sends no request; for a non-blank input the text stored in
\* the history and the text sent are the input without surrounding blanks.
C8_BlankIgnoredAndInputStripped ==
    /\ (run.handled \in {"form", "warning"} /\ IsBlank(run.user_input)) =>
          (run.handled = "warning" /\ messages = run.before /\ run.posts = <<>>)
    /\ (run.handled \in {"form", "warning"} /\ ~IsBlank(run.user_input)) =>
          /\ run.handled = "form"
          /\ Appended[1].sender = "user"
          /\ IsStripOf(Appended[1].message, run.user_input)
          /\ \A k \in 1..Len(run.posts) :
                IsStripOf(run.posts[k].message, run.user_input)

C8_Witness ==
    /\ run.handled = "form"
    /\ run.user_input = <<" ", "a">>
    /\ Len(run.posts) = 1
    /\ Len(run.before) >= 2

\* C9 as stated: after any submitted message is handled, the last message in
\* the history is a bot message.
C9_LastIsBotAlways == Handled => Last(messages).sender = "bot"

EmptyReply == run.outcome = "ok" /\ run.ret = <<>>

\* C9 amended: after a submitted message is handled the last message is a bot
\* message, except when the server answered 200 with an empty list of
\* fragments: then no bot message is appended and the user message is last.
C9_LastIsBotUnlessEmptyReply ==
    Handled =>
        /\ ~EmptyReply => Last(messages).sender = "bot"
        /\ EmptyReply => (Last(messages).sender = "user" /\ Len(Appended) = 1)

C9_Witness ==
    /\ Handled /\ run.outcome = "ok" /\ Len(run.ret) >= 1
    /\ Len(run.before) >= 2 /\ Last(run.before).sender = "user"
    /\ Last(messages).sender = "bot"

NumUser(s) == Cardinality({k \in 1..Len(s) : s[k].sender = "user"})

\* C10: each click that selects an example or quick action results in exactly
\* one user message and at most one request: the number of selecting clicks
\* not yet handled always equals the number of pending selections (0 or 1),
\* nothing is pending once the session is idle, and one handling of a
\* selection appends one user message, sends at most one request and leaves
\* no selection behind.
C10_SelectionHandledOnce ==
    /\ unprocessed = Len(selected_example)
    /\ Len(selected_example) <= 1
    /\ ~rerun => selected_example = <<>>
    /\ run.handled = "example" =>
          /\ IsPrefix(run.before, messages)
          /\ NumUser(Appended) = 1
          /\ Len(run.posts) <= 1
          /\ selected_example = <<>>

C10_Witness ==
    /\ run.handled = "example"
    /\ Appended[1] = Msg("user", quick_actions[2])
    /\ Len(run.posts) = 1

\* C11: in every state after session initialization the history is non-empty
\* and its first element is a bot message: the welcome message, or the "Chat
\* cleared" message after a clear.
C11_FirstIsBot ==
    /\ Len(messages) >= 1
    /\ messages[1].sender = "bot"
    /\ messages[1].message \in {WelcomeMsg, ClearedMsg}

C11_Witness ==
    /\ Handled
    /\ run.before = <<Msg("bot", ClearedMsg)>>
    /\ messages[1] = Msg("bot", ClearedMsg)
    /\ messages[2].sender = "user"

\* C12: the sender id of the session never changes once assigned, whatever
\* the script execution (rerun, Clear Chat History, any handler), and every
\* request an execution sends carries that sender id.
C12_SenderIdFixed ==
    [][/\ user_id' = user_id
       /\ \A k \in 1..Len(run'.posts) : run'.posts[k].sender = user_id]_vars

C12_Witness ==
    /\ Handled
    /\ Len(run.posts) = 1
    /\ run.posts[1].sender = user_id
    /\ user_id = UserId(1700000001)
    /\ run.before[1] = Msg("bot", ClearedMsg)

\* C4: resolve returns None or a member of the candidate list whose
\* similarity to the query is at least the cutoff.
C4_MatchAtLeastCutoff ==
    (dpc = "resolved" /\ match # <<>>) =>
        /\ \E i \in 1..Len(candidates) : candidates[i] = match[1].candidate
        /\ Similarity(query, match[1].candidate) >= cutoff

C4_Witness ==
    /\ dpc = "resolved" /\ match # <<>>
    /\ cutoff = 50
    /\ match[1].candidate # query
    /\ \E i \in 1..Len(candidates) : Similarity(query, candidates[i]) < cutoff

\* C5: resolve returns None whenever the query is empty and whenever the
\* candidate list is empty, for any cutoff.
C5_EmptyGivesNone ==
    (dpc = "resolved" /\ (query = <<>> \/ candidates = <<>>)) => match = <<>>

C5_Witness ==
    dpc = "resolved" /\ query = <<>> /\ candidates # <<>> /\ cutoff = 0 /\ match = <<>>

ExactIds == {k \in 1..Len(dataset) : Lower(dataset[k].genre) = Lower(genre)}

\* C6: in genre selection the substring fallback is invoked only when the
\* case-insensitive exact filter returned no rows; when the exact filter is
\* non-empty the result is its first rows (up to 10) in dataset order.
C6_FallbackOnlyWhenExactEmpty ==
    dpc = "selected" =>
        /\ fallbackInvoked => ExactIds = {}
        /\ ExactIds # {} =>
              /\ Len(genreRows) = Min(Cardinality(ExactIds), TopN)
              /\ \A k \in 1..Len(genreRows) :
                    /\ genreRows[k] = dataset[genreRows[k].id]
                    /\ genreRows[k].id \in ExactIds
                    /\ Cardinality({j \in ExactIds : j < genreRows[k].id}) = k - 1

C6_Witness ==
    /\ dpc = "selected"
    /\ Cardinality(ExactIds) > TopN
    /\ \E k \in 1..Len(dataset) : k \notin ExactIds /\ GenreContains(dataset[k], genre)
    /\ Len(genreRows) = TopN

====
